---- MODULE Spec2Model ----
(***************************************************************************)
(* A model of the map-reduce engine of src/src/core: the HashPartitioner   *)
(* (base.py), the Worker's HTTP handlers (worker.py) and the Coordinator's *)
(* run_job (coordinator.py).                                               *)
(*                                                                         *)
(* Worker indices are 0-based as in the Python code; TLA+ sequences are    *)
(* 1-based, so the partition of worker i is data_splits[i + 1].            *)
(***************************************************************************)
EXTENDS Integers, Sequences, FiniteSets, TLC

(***************************************************************************)
(* Bounds of the model.                                                    *)
(***************************************************************************)
\* worker processes of a cluster are 0 .. NumWorkers - 1
NumWorkers == 2
\* intermediate keys (hours of the day) are 0 .. MaxKey
MaxKey == 1
\* longest job input
MaxLen == 3
\* per-process string-hash secrets are 0 .. MaxSecret
MaxSecret == 1
\* width, in bits, of the modelled Py_hash_t
HashBits == 4
\* partition counts passed to get_partition directly are 1 .. MaxParts
MaxParts == 2
\* restarts of one worker process
MaxRestarts == 1
\* worker counts handed to _split_data are 1 .. MaxSplitWorkers
MaxSplitWorkers == 3
\* requests one worker's server holds at a time
MaxThreads == 2
\* values in a reduce-input after which clients send no more shuffle requests
MaxValues == 2
\* result pairs the workers hand to the final merge
MaxResults == 3
\* the float above which a value counts as a count (coordinator.py:289)
Threshold == 100
\* the decimals an average is rounded to (coordinator.py:296)
Digits == 2

VARIABLES
    \* ---- Worker (worker.py:41-66), one entry per worker index
    status,         \* self.status
    current_task,   \* self.current_task
    map_output,     \* self.map_output: sequence of <<key, value>>
    reduce_input,   \* self.reduce_input: dict key -> list of values
    reduce_output,  \* self.reduce_output: sequence of <<key, value>>
    workers,        \* self.workers: the registry, as its ordered list of ids
    mapper,         \* self.mapper
    reducer,        \* self.reducer
    secret,         \* the process's string-hash secret (hash randomisation)
    incarnation,    \* how often the worker process was restarted
    handler,        \* the requests the worker's server holds, one thread each
    steps,          \* the last two handler steps taken on the worker
    \* ---- observed calls of HashPartitioner.get_partition
    call1,          \* the latest call
    call2,          \* the call before it
    \* ---- Coordinator (coordinator.py)
    input_data,     \* run_job's input_data
    num_workers,    \* self.num_workers
    data_splits,    \* the value of _split_data(input_data)
    futures,        \* the client's future of the request sent to each worker
    pc,             \* the coordinator's position: the phase it is in
    all_results,    \* _collect_results' all_results: sequence of <<key, value>>
    final_results,  \* what _collect_results returns, or how it ended
    failure,        \* "no", "raising" (inside the with block), "raised"
    dispatched,     \* the requests submitted: <<phase, worker>>
    received,       \* the futures the main thread took: <<phase, worker, outcome>>
    job             \* which run_job invocation runs: "none", "first", "later"

workerVars == <<status, current_task, map_output, reduce_input, reduce_output,
                workers, mapper, reducer>>
procVars == <<secret, incarnation>>
netVars == <<handler, futures, steps>>
partVars == <<call1, call2>>
jobVars == <<failure, dispatched, received, job>>
mergeVars == <<all_results, final_results>>
coordVars == <<input_data, num_workers, data_splits, pc, mergeVars, jobVars>>
vars == <<workerVars, procVars, netVars, partVars, coordVars>>
\* what no handler of a worker touches
clientVars == <<procVars, partVars, coordVars>>

Workers == 0 .. (NumWorkers - 1)
Keys == 0 .. MaxKey
Secrets == 0 .. MaxSecret
Threads == 1 .. MaxThreads

\* Python's None, for fields that hold None or a string
None == "None"

(***************************************************************************)
(* Python helpers.                                                         *)
(***************************************************************************)
Min(a, b) == IF a < b THEN a ELSE b

RECURSIVE Pow2(_)
Pow2(n) == IF n = 0 THEN 1 ELSE 2 * Pow2(n - 1)

\* s[a:b] for 0 <= a, 0 <= b: both ends clamp to len(s)
PySlice(s, a, b) ==
    LET lo == Min(a, Len(s))
        hi == Min(b, Len(s))
    IN  IF lo >= hi THEN <<>> ELSE SubSeq(s, lo + 1, hi)

\* str(key) of a non-negative int: its decimal digits, most significant first
RECURSIVE PyStr(_)
PyStr(key) == IF key < 10 THEN <<key>> ELSE Append(PyStr(key \div 10), key % 10)

\* The keyed string hash: one round per character (ord('0') = 48), unsigned
RECURSIVE HashRounds(_, _)
HashRounds(h, s) ==
    IF s = <<>> THEN h
    ELSE HashRounds((h * 31 + Head(s) + 48) % Pow2(HashBits), Tail(s))

\* hash(s) of a str in a process whose hash secret is sec: a signed Py_hash_t
PyHash(sec, s) ==
    LET u == HashRounds(sec, s)
    IN  IF u >= Pow2(HashBits - 1) THEN u - Pow2(HashBits) ELSE u

\* a remainder that takes the sign of the dividend (C's %), not of the divisor
TruncatedPartition(sec, key, num_partitions) ==
    LET h == PyHash(sec, PyStr(key))
    IN  IF h >= 0 THEN h % num_partitions ELSE 0 - ((0 - h) % num_partitions)

\* HashPartitioner.get_partition (base.py:78-80), num_partitions > 0, evaluated
\* in a process whose hash secret is sec. Python's % takes the divisor's sign.
get_partition(sec, key, num_partitions) ==
    PyHash(sec, PyStr(key)) % num_partitions

(***************************************************************************)
(* Coordinator._split_data (coordinator.py:128-151).                       *)
(***************************************************************************)
\* a slice end that forgets the remainder of the last worker
SliceEndNoRemainder(i, chunk_size, len, n) == i * chunk_size + chunk_size

\* `end` of worker i's slice (coordinator.py:145)
SliceEnd(i, chunk_size, len, n) ==
    IF i < n - 1 THEN i * chunk_size + chunk_size ELSE len

_split_data(data, n) ==
    LET chunk_size == Len(data) \div n
    IN  [j \in 1 .. n |->
            PySlice(data, (j - 1) * chunk_size,
                    SliceEnd(j - 1, chunk_size, Len(data), n))]

\* the concatenation of a sequence of sequences, in order
RECURSIVE Concat(_)
Concat(ss) == IF ss = <<>> THEN <<>> ELSE Head(ss) \o Concat(Tail(ss))

(***************************************************************************)
(* Inputs.  A job's input is a list of (row index, pickup hour) records,   *)
(* as the loaders build it; NoHour stands for a record without a pickup    *)
(* time.                                                                   *)
(***************************************************************************)
NoHour == -1
Hours == Keys \cup {NoHour}

RECURSIVE SeqsUpTo(_, _)
SeqsUpTo(S, n) ==
    IF n = 0 THEN {<<>>}
    ELSE LET shorter == SeqsUpTo(S, n - 1)
         IN  shorter \cup {Append(s, x) : s \in {t \in shorter : Len(t) = n - 1}, x \in S}

\* enumerate(values): the records <<row index, value>>
Indexed(values) == [j \in 1 .. Len(values) |-> <<j - 1, values[j]>>]

Inputs == {Indexed(v) : v \in SeqsUpTo(Hours, MaxLen)}

NoCall == [proc |-> -1, inc |-> 0, key |-> 0, n |-> 1, result |-> 0]

\* the state of a freshly constructed Worker (worker.py:47-66)
WorkerInit ==
    /\ status = [w \in Workers |-> "idle"]
    /\ current_task = [w \in Workers |-> None]
    /\ map_output = [w \in Workers |-> <<>>]
    /\ reduce_input = [w \in Workers |-> <<>>]
    /\ reduce_output = [w \in Workers |-> <<>>]
    /\ workers = [w \in Workers |-> <<>>]
    /\ mapper = [w \in Workers |-> None]
    /\ reducer = [w \in Workers |-> None]

NetIdle ==
    /\ handler = [w \in Workers |-> <<>>]
    /\ futures = [w \in Workers |-> "none"]
    /\ steps = [w \in Workers |-> <<>>]

JobIdle ==
    /\ failure = "no"
    /\ dispatched = {}
    /\ received = {}
    /\ job = "none"

\* _collect_results has not merged anything
NotMerged == [ended |-> "no", value |-> <<>>]

MergeIdle ==
    /\ all_results = <<>>
    /\ final_results = NotMerged

CoordIdle ==
    /\ NetIdle
    /\ JobIdle
    /\ MergeIdle
    /\ input_data = <<>>
    /\ num_workers = NumWorkers
    /\ data_splits = <<>>
    /\ pc = "idle"

(***************************************************************************)
(* SpecPart: worker processes evaluating HashPartitioner.get_partition.    *)
(***************************************************************************)
PartInit ==
    /\ WorkerInit
    /\ CoordIdle
    /\ secret \in [Workers -> Secrets]
    /\ incarnation = [w \in Workers |-> 0]
    /\ call1 = NoCall
    /\ call2 = NoCall

\* process w evaluates partitioner.get_partition(key, n); the calls observed
\* in one behaviour are about one (key, n)
CallPartition(w, key, n) ==
    /\ call1 # NoCall => (key = call1.key /\ n = call1.n)
    /\ call1' = [proc |-> w, inc |-> incarnation[w], key |-> key, n |-> n,
                 result |-> get_partition(secret[w], key, n)]
    /\ call2' = call1
    /\ UNCHANGED <<workerVars, procVars, netVars, coordVars>>

\* the worker process is started again (main.py:122-133): a new interpreter
\* draws a new hash secret
Restart(w) ==
    /\ incarnation[w] < MaxRestarts
    /\ incarnation' = [incarnation EXCEPT ![w] = @ + 1]
    /\ \E s \in Secrets : secret' = [secret EXCEPT ![w] = s]
    /\ UNCHANGED <<workerVars, netVars, partVars, coordVars>>

PartNext ==
    \/ \E w \in Workers, key \in Keys, n \in 1 .. MaxParts : CallPartition(w, key, n)
    \/ \E w \in Workers : Restart(w)

SpecPart == PartInit /\ [][PartNext]_vars

(***************************************************************************)
(* SpecSplit: _split_data applied to every input and worker count.         *)
(***************************************************************************)
SplitInit ==
    /\ WorkerInit
    /\ secret = [w \in Workers |-> 0]
    /\ incarnation = [w \in Workers |-> 0]
    /\ call1 = NoCall
    /\ call2 = NoCall
    /\ NetIdle
    /\ JobIdle
    /\ MergeIdle
    /\ input_data \in Inputs
    /\ num_workers \in 1 .. MaxSplitWorkers
    /\ data_splits = <<>>
    /\ pc = "split"

SplitData ==
    /\ pc = "split"
    /\ data_splits' = _split_data(input_data, num_workers)
    /\ pc' = "split_done"
    /\ UNCHANGED <<workerVars, procVars, netVars, partVars, mergeVars, input_data,
                   num_workers, jobVars>>

SplitNext == SplitData

SpecSplit == SplitInit /\ [][SplitNext]_vars

(***************************************************************************)
(* Claims about the partitioner and about _split_data.                     *)
(***************************************************************************)
IsCall(c) == c.proc \in Workers

SameProcess(c, d) == c.proc = d.proc /\ c.inc = d.inc

\* C4: for every key and partition count, get_partition evaluated in any two
\* worker processes, or in one worker before and after a restart, returns the
\* same partition index.
C4_AgreementAcrossProcesses ==
    (IsCall(call1) /\ IsCall(call2) /\ call1.key = call2.key /\ call1.n = call2.n)
        => call1.result = call2.result

\* C5: get_partition(k, N) with N >= 1 lies in 0 .. N-1, and two calls with
\* the same (k, N) in the same process return the same value.
C5_RangeAndRepeatable ==
    /\ IsCall(call1) => (call1.result >= 0 /\ call1.result < call1.n)
    /\ (IsCall(call1) /\ IsCall(call2) /\ SameProcess(call1, call2)
            /\ call1.key = call2.key /\ call1.n = call2.n)
        => call1.result = call2.result

\* C5's case: the same process asked twice about a key whose hash is negative
C5_Witness ==
    /\ IsCall(call1) /\ IsCall(call2) /\ SameProcess(call1, call2)
    /\ call1.key = call2.key /\ call1.n = call2.n /\ call1.n > 1
    /\ PyHash(secret[call1.proc], PyStr(call1.key)) < 0

\* C6: _split_data returns exactly N slices whose concatenation, in worker
\* order, is the input.
C6_SplitPreservesInput ==
    pc = "split_done" =>
        /\ Len(data_splits) = num_workers
        /\ Concat(data_splits) = input_data

\* C6's case: an input whose length the worker count does not divide
C6_Witness ==
    /\ pc = "split_done"
    /\ num_workers > 1
    /\ Len(input_data) % num_workers # 0

\* C7 as claimed: the sizes of any two input partitions differ by at most one.
C7_SizesDifferByAtMostOne ==
    pc = "split_done" =>
        \A i, j \in 1 .. num_workers :
            Len(data_splits[i]) - Len(data_splits[j]) <= 1

\* C7 as amended: each of the first N-1 partitions holds floor(L/N) records
\* and the last one holds floor(L/N) + (L mod N).
C7_LastAbsorbsRemainder ==
    pc = "split_done" =>
        /\ \A j \in 1 .. (num_workers - 1) :
               Len(data_splits[j]) = Len(input_data) \div num_workers
        /\ Len(data_splits[num_workers]) =
               (Len(input_data) \div num_workers) + (Len(input_data) % num_workers)

\* C7's case: a remainder of two or more records
C7_Witness ==
    /\ pc = "split_done"
    /\ Len(input_data) % num_workers >= 2

(***************************************************************************)
(* The Worker (worker.py).                                                 *)
(*                                                                         *)
(* reduce_input is a defaultdict(list); Python dicts keep insertion order  *)
(* and the reduce phase iterates in that order, so a dict is modelled as   *)
(* the sequence of its items [key, values].                                *)
(***************************************************************************)
DictKeys(d) == {d[i].key : i \in 1 .. Len(d)}

DictIndex(d, k) == CHOOSE i \in 1 .. Len(d) : d[i].key = k

\* d[k].append(v) on a defaultdict(list)
DictAppend(d, k, v) ==
    IF k \in DictKeys(d)
    THEN [d EXCEPT ![DictIndex(d, k)].values = Append(@, v)]
    ELSE Append(d, [key |-> k, values |-> <<v>>])

\* for key, value in data: d[key].append(value)   (worker.py:120-121, 289-290)
RECURSIVE AppendAll(_, _)
AppendAll(d, data) ==
    IF data = <<>> THEN d
    ELSE AppendAll(DictAppend(d, Head(data)[1], Head(data)[2]), Tail(data))

\* the number of values a dict of lists holds
RECURSIVE CountValues(_)
CountValues(d) ==
    IF d = <<>> THEN 0 ELSE Len(Head(d).values) + CountValues(Tail(d))

RECURSIVE SumSeq(_)
SumSeq(xs) == IF xs = <<>> THEN 0 ELSE Head(xs) + SumSeq(Tail(xs))

\* The mappers a worker may hold: None (never set), HourlyTrafficMapper
\* (task3_hourly_traffic.py:25-63, which skips a record without pickup time)
\* and a user Mapper (base.py:16-28) that raises on such a record.
Mappers == {None, "HourlyTrafficMapper", "RaisingMapper"}

\* list(self.mapper.map(key, value)): the pairs emitted, or an exception
RunMapper(m, rec) ==
    IF m = None THEN [emit |-> <<>>, raised |-> TRUE]
    ELSE IF rec[2] = NoHour THEN [emit |-> <<>>, raised |-> (m = "RaisingMapper")]
    ELSE [emit |-> << <<rec[2], 1>> >>, raised |-> FALSE]

\* the loop of _execute_map_phase (worker.py:245-251) from map_output = out
RECURSIVE MapLoop(_, _, _)
MapLoop(m, input, out) ==
    IF input = <<>> THEN [map_output |-> out, raised |-> FALSE]
    ELSE LET r == RunMapper(m, Head(input))
         IN  IF r.raised THEN [map_output |-> out, raised |-> TRUE]
             ELSE MapLoop(m, Tail(input), out \o r.emit)

\* a map phase that walks its input from the last record to the first
MapReversed(m, input) ==
    MapLoop(m, [i \in 1 .. Len(input) |-> input[Len(input) + 1 - i]], <<>>)

\* Worker._execute_map_phase (worker.py:229-261)
_execute_map_phase(m, input) == MapLoop(m, input, <<>>)

\* The reducers: None and HourlyTrafficReducer (task3_hourly_traffic.py:74-86)
Reducers == {None, "HourlyTrafficReducer"}

RunReducer(r, key, values) ==
    IF r = None THEN [emit |-> <<>>, raised |-> TRUE]
    ELSE [emit |-> << <<key, SumSeq(values)>> >>, raised |-> FALSE]

\* the loop of _execute_reduce_phase (worker.py:329-335)
RECURSIVE ReduceLoop(_, _, _)
ReduceLoop(r, items, out) ==
    IF items = <<>> THEN [reduce_output |-> out, raised |-> FALSE]
    ELSE LET e == RunReducer(r, Head(items).key, Head(items).values)
         IN  IF e.raised THEN [reduce_output |-> out, raised |-> TRUE]
             ELSE ReduceLoop(r, Tail(items), out \o e.emit)

\* a reduce loop that leaves out the last key of the dict
ReduceSkipsLast(r, red_in) ==
    ReduceLoop(r, SubSeq(red_in, 1, Len(red_in) - 1), <<>>)

\* Worker._execute_reduce_phase (worker.py:316-346)
_execute_reduce_phase(r, red_in) == ReduceLoop(r, red_in, <<>>)

\* the per-destination buffers of shuffle_data (worker.py:276-282): a dict
\* target worker id -> list of pairs, for a non-empty registry
RECURSIVE PartitionLoop(_, _, _, _)
PartitionLoop(out, registry, sec, partitions) ==
    IF out = <<>> THEN partitions
    ELSE LET partition_idx == get_partition(sec, Head(out)[1], Len(registry))
             target_worker_id == registry[partition_idx + 1]
         IN  PartitionLoop(Tail(out), registry, sec,
                           DictAppend(partitions, target_worker_id, Head(out)))

\* get_partition(key, 0) raises ZeroDivisionError (worker.py:277-280)
ShuffleRaises(w) == map_output[w] # <<>> /\ Len(workers[w]) = 0

ShufflePartitions(w) ==
    IF map_output[w] = <<>> THEN <<>>
    ELSE PartitionLoop(map_output[w], workers[w], secret[w], <<>>)

(***************************************************************************)
(* Requests.  A request a worker's server holds is a thread record         *)
(* [route, body, stage, waited]: stage is "sent" until the handler runs    *)
(* and "running" inside a task handler; waited says whether the client     *)
(* still waits for the response.                                           *)
(***************************************************************************)
Request(route, body) ==
    [route |-> route, body |-> body, stage |-> "sent", waited |-> TRUE]

RemoveAt(seq, t) == SubSeq(seq, 1, t - 1) \o SubSeq(seq, t + 1, Len(seq))

Holds(w, t, route, stage) ==
    /\ t \in 1 .. Len(handler[w])
    /\ handler[w][t].route = route
    /\ handler[w][t].stage = stage

\* steps keeps, per worker, the last two steps its handlers took: the route,
\* the status the step found, and the response code ("none" for a handler
\* that has started and not yet returned)
Logged(log, route, from, code) ==
    LET all == Append(log, [route |-> route, from |-> from, code |-> code])
    IN  IF Len(all) > 2 THEN Tail(all) ELSE all

StepsAfter(w, route, code, delivered) ==
    [v \in Workers |->
        IF v = w THEN Logged(steps[v], route, status[v], code)
        ELSE IF v \in delivered THEN Logged(steps[v], "/shuffle", status[v], "200")
        ELSE steps[v]]

\* a handler that marks the worker busy whatever the task
EnterBusy(w, t, st, task) ==
    /\ status' = [status EXCEPT ![w] = "busy"]
    /\ current_task' = [current_task EXCEPT ![w] = task]
    /\ handler' = [handler EXCEPT ![w][t].stage = "running"]
    /\ steps' = StepsAfter(w, handler[w][t].route, "none", {})
    /\ UNCHANGED <<map_output, reduce_input, reduce_output, workers, mapper,
                   reducer, futures, clientVars>>

\* the handler's first statements: status and current_task (worker.py:89-90,
\* 136-137, 161-162)
Enter(w, t, st, task) ==
    /\ status' = [status EXCEPT ![w] = st]
    /\ current_task' = [current_task EXCEPT ![w] = task]
    /\ handler' = [handler EXCEPT ![w][t].stage = "running"]
    /\ steps' = StepsAfter(w, handler[w][t].route, "none", {})
    /\ UNCHANGED <<map_output, reduce_input, reduce_output, workers, mapper,
                   reducer, futures, clientVars>>

\* the handler returns: the response reaches the client if it still waits;
\* delivered are the peers whose /shuffle handler (worker.py:109-130) ran
\* inside this handler
Reply(w, t, code, delivered) ==
    /\ futures' = IF handler[w][t].waited
                  THEN [futures EXCEPT ![w] = code] ELSE futures
    /\ handler' = [handler EXCEPT ![w] = RemoveAt(@, t)]
    /\ steps' = StepsAfter(w, handler[w][t].route, code, delivered)
    /\ UNCHANGED clientVars

Respond(w, t, code) == Reply(w, t, code, {})

\* a task handler whose except branch puts the worker back to idle
FinishIdle(w, t, raised, delivered) ==
    /\ status' = [status EXCEPT ![w] = "idle"]
    /\ current_task' = [current_task EXCEPT ![w] = None]
    /\ Reply(w, t, IF raised THEN "500" ELSE "200", delivered)

\* the end of a task handler (worker.py:95-107, 142-155, 167-178)
Finish(w, t, raised, delivered) ==
    /\ status' = [status EXCEPT ![w] = IF raised THEN "error" ELSE "idle"]
    /\ current_task' = IF raised THEN current_task
                       ELSE [current_task EXCEPT ![w] = None]
    /\ Reply(w, t, IF raised THEN "500" ELSE "200", delivered)

Leave(w, t, raised) == Finish(w, t, raised, {})

\* an execute_map that also keeps its output for its own reduce phase
execute_map_delivers(w, t) ==
    /\ Holds(w, t, "/execute_map", "running")
    /\ LET r == _execute_map_phase(mapper[w], handler[w][t].body)
       IN  /\ map_output' = [map_output EXCEPT ![w] = r.map_output]
           /\ reduce_input' = [reduce_input EXCEPT ![w] = AppendAll(@, r.map_output)]
           /\ Leave(w, t, r.raised)
    /\ UNCHANGED <<reduce_output, workers, mapper, reducer>>

\* POST /execute_map (worker.py:82-107)
execute_map_start(w, t) ==
    /\ Holds(w, t, "/execute_map", "sent")
    /\ Enter(w, t, "mapping", "map")

execute_map_finish(w, t) ==
    /\ Holds(w, t, "/execute_map", "running")
    /\ LET r == _execute_map_phase(mapper[w], handler[w][t].body)
       IN  /\ map_output' = [map_output EXCEPT ![w] = r.map_output]
           /\ Leave(w, t, r.raised)
    /\ UNCHANGED <<reduce_input, reduce_output, workers, mapper, reducer>>

\* POST /execute_shuffle (worker.py:157-178) with shuffle_data (263-314).  A
\* buffer for the worker itself is appended to its reduce_input; a buffer for
\* a peer is POSTed to the peer's /shuffle (109-130), which appends it; a POST
\* that fails is logged and skipped (308-312).
execute_shuffle_start(w, t) ==
    /\ Holds(w, t, "/execute_shuffle", "sent")
    /\ Enter(w, t, "shuffling", "shuffle")

execute_shuffle_finish(w, t) ==
    /\ Holds(w, t, "/execute_shuffle", "running")
    /\ IF ShuffleRaises(w)
       THEN /\ Leave(w, t, TRUE)
            /\ UNCHANGED reduce_input
       ELSE LET partitions == ShufflePartitions(w)
                targets == DictKeys(partitions)
            IN  \E failed \in SUBSET (targets \ {w}) :
                    /\ reduce_input' =
                          [v \in Workers |->
                              IF v \in targets \ failed
                              THEN AppendAll(reduce_input[v],
                                             partitions[DictIndex(partitions, v)].values)
                              ELSE reduce_input[v]]
                    /\ Finish(w, t, FALSE, (targets \ failed) \ {w})
    /\ UNCHANGED <<map_output, reduce_output, workers, mapper, reducer>>

\* POST /execute_reduce (worker.py:132-155)
execute_reduce_start(w, t) ==
    /\ Holds(w, t, "/execute_reduce", "sent")
    /\ Enter(w, t, "reducing", "reduce")

\* an execute_reduce that consumes the reduce-input it has reduced
execute_reduce_consumes(w, t) ==
    /\ Holds(w, t, "/execute_reduce", "running")
    /\ LET r == _execute_reduce_phase(reducer[w], reduce_input[w])
       IN  /\ reduce_output' = [reduce_output EXCEPT ![w] = r.reduce_output]
           /\ reduce_input' = [reduce_input EXCEPT ![w] = IF r.raised THEN @ ELSE <<>>]
           /\ Leave(w, t, r.raised)
    /\ UNCHANGED <<map_output, workers, mapper, reducer>>

execute_reduce_finish(w, t) ==
    /\ Holds(w, t, "/execute_reduce", "running")
    /\ LET r == _execute_reduce_phase(reducer[w], reduce_input[w])
       IN  /\ reduce_output' = [reduce_output EXCEPT ![w] = r.reduce_output]
           /\ Leave(w, t, r.raised)
    /\ UNCHANGED <<map_output, reduce_input, workers, mapper, reducer>>

\* POST /register_workers (worker.py:199-213)
register_workers(w, t) ==
    /\ Holds(w, t, "/register_workers", "sent")
    /\ workers' = [workers EXCEPT ![w] = handler[w][t].body]
    /\ Respond(w, t, "200")
    /\ UNCHANGED <<status, current_task, map_output, reduce_input,
                   reduce_output, mapper, reducer>>

(***************************************************************************)
(* SpecShuffle: a client drives the workers through the split variant:     *)
(* it registers the worker list on every worker, then posts execute_map    *)
(* to every worker, then execute_shuffle to every worker, waiting for all  *)
(* responses of a phase before it starts the next.                         *)
(***************************************************************************)
Registry == [j \in 1 .. NumWorkers |-> j - 1]

ClientRequest(w) ==
    CASE pc = "sh_register" -> Request("/register_workers", Registry)
      [] pc = "sh_map" -> Request("/execute_map", data_splits[w + 1])
      [] pc = "sh_shuffle" -> Request("/execute_shuffle", <<>>)

ClientNextPhase ==
    CASE pc = "sh_register" -> "sh_map"
      [] pc = "sh_map" -> "sh_shuffle"
      [] pc = "sh_shuffle" -> "sh_done"

ShuffleInit ==
    /\ status = [w \in Workers |-> "idle"]
    /\ current_task = [w \in Workers |-> None]
    /\ map_output = [w \in Workers |-> <<>>]
    /\ reduce_input = [w \in Workers |-> <<>>]
    /\ reduce_output = [w \in Workers |-> <<>>]
    /\ workers = [w \in Workers |-> <<>>]
    \* set_mapper, set_reducer before the server starts (run_example.py:81-82)
    /\ mapper = [w \in Workers |-> "HourlyTrafficMapper"]
    /\ reducer = [w \in Workers |-> "HourlyTrafficReducer"]
    /\ secret \in [Workers -> Secrets]
    /\ incarnation = [w \in Workers |-> 0]
    /\ NetIdle
    /\ JobIdle
    /\ MergeIdle
    /\ call1 = NoCall
    /\ call2 = NoCall
    /\ input_data \in Inputs
    /\ num_workers = NumWorkers
    /\ data_splits = _split_data(input_data, NumWorkers)
    /\ pc = "sh_register"

ClientSend(w) ==
    /\ pc \in {"sh_register", "sh_map", "sh_shuffle"}
    /\ futures[w] = "none"
    /\ futures' = [futures EXCEPT ![w] = "pending"]
    /\ handler' = [handler EXCEPT ![w] = Append(@, ClientRequest(w))]
    /\ UNCHANGED <<workerVars, steps, procVars, partVars, mergeVars, input_data, num_workers,
                   data_splits, pc, jobVars>>

ClientBarrier ==
    /\ pc \in {"sh_register", "sh_map", "sh_shuffle"}
    /\ \A w \in Workers : futures[w] = "200"
    /\ pc' = ClientNextPhase
    /\ futures' = [w \in Workers |-> "none"]
    /\ UNCHANGED <<workerVars, procVars, handler, steps, partVars, mergeVars, input_data,
                   num_workers, data_splits, jobVars>>

ShuffleNext ==
    \/ \E w \in Workers : ClientSend(w)
    \/ ClientBarrier
    \/ \E w \in Workers, t \in Threads : register_workers(w, t)
    \/ \E w \in Workers, t \in Threads : execute_map_start(w, t)
    \/ \E w \in Workers, t \in Threads : execute_map_finish(w, t)
    \/ \E w \in Workers, t \in Threads : execute_shuffle_start(w, t)
    \/ \E w \in Workers, t \in Threads : execute_shuffle_finish(w, t)

SpecShuffle == ShuffleInit /\ [][ShuffleNext]_vars

\* the shuffle has completed, with a success response, on every worker
ShuffleCompleted == pc = "sh_done"

\* the worker that w's partitioner and registry name as the owner of key
Owner(w, key) == workers[w][get_partition(secret[w], key, Len(workers[w])) + 1]

RECURSIVE SumOver(_, _)
SumOver(f, S) ==
    IF S = {} THEN 0
    ELSE LET x == CHOOSE y \in S : TRUE IN f[x] + SumOver(f, S \ {x})

\* C1: once the shuffle has completed on every worker, a key is in the
\* reduce-input of one worker only, the one with index partition(k, N),
\* whichever worker evaluates the partitioner.
C1_SoleOwnership ==
    ShuffleCompleted =>
        \A w \in Workers : \A k \in DictKeys(reduce_input[w]) :
            \A v \in Workers : Owner(v, k) = w

\* C2: at the end of the shuffle the reduce-inputs of all workers hold as
\* many values as the mappers emitted pairs.
C2_ConservationOfMass ==
    ShuffleCompleted =>
        SumOver([w \in Workers |-> CountValues(reduce_input[w])], Workers)
            = SumOver([w \in Workers |-> Len(map_output[w])], Workers)

\* worker w answered its execute_shuffle request with success
ShuffleSucceeded(w) == (pc = "sh_shuffle" /\ futures[w] = "200") \/ pc = "sh_done"

\* C11: a worker that has answered execute_shuffle with success has delivered
\* every pair of its map output: the pair's key is in the reduce-input of the
\* worker its partitioner names.
C11_DeliveryFailureIsFatal ==
    \A w \in Workers : ShuffleSucceeded(w) =>
        \A i \in 1 .. Len(map_output[w]) :
            LET key == map_output[w][i][1]
            IN  key \in DictKeys(reduce_input[Owner(w, key)])

(***************************************************************************)
(* The remaining handlers the Coordinator's requests reach.                *)
(***************************************************************************)
\* the routes the Worker registers (worker.py:73-215)
WorkerRoutes == {"/health", "/execute_map", "/shuffle", "/execute_reduce",
                 "/execute_shuffle", "/set_task", "/register_workers", "/clear"}

\* GET /health (worker.py:73-80)
health(w, t) ==
    /\ Holds(w, t, "/health", "sent")
    /\ Respond(w, t, "200")
    /\ UNCHANGED workerVars

\* a request for a route the Worker does not register: Flask answers 404
not_found(w, t) ==
    /\ t \in 1 .. Len(handler[w])
    /\ handler[w][t].route \notin WorkerRoutes
    /\ Respond(w, t, "404")
    /\ UNCHANGED workerVars

\* the client's timeout expires (coordinator.py:66, 121, 174, 216, 249): its
\* future ends with an exception; the worker goes on with the request
request_timeout(w, t) ==
    /\ t \in 1 .. Len(handler[w])
    /\ handler[w][t].waited
    /\ futures[w] = "pending"
    /\ futures' = [futures EXCEPT ![w] = "exc"]
    /\ handler' = [handler EXCEPT ![w][t].waited = FALSE]
    /\ UNCHANGED <<workerVars, steps, clientVars>>

\* the request never reaches the worker: the future ends with an exception
connection_error(w, t) ==
    /\ t \in 1 .. Len(handler[w])
    /\ handler[w][t].waited
    /\ handler[w][t].stage = "sent"
    /\ futures[w] = "pending"
    /\ futures' = [futures EXCEPT ![w] = "exc"]
    /\ handler' = [handler EXCEPT ![w] = RemoveAt(@, t)]
    /\ UNCHANGED <<workerVars, steps, clientVars>>

\* POST /shuffle from a client (worker.py:109-130).  The handler holds no
\* lock, so each round of its loop (worker.py:120-121) is a step of its own:
\* the thread's body is what is left to append.
receive_shuffle_step(w, t) ==
    /\ t \in 1 .. Len(handler[w])
    /\ handler[w][t].route = "/shuffle"
    /\ handler[w][t].body # <<>>
    /\ Len(Head(handler[w][t].body)) = 2
    /\ LET pair == Head(handler[w][t].body)
       IN  reduce_input' = [reduce_input EXCEPT ![w] = DictAppend(@, pair[1], pair[2])]
    /\ handler' = [handler EXCEPT ![w][t].body = Tail(@), ![w][t].stage = "running"]
    /\ steps' = StepsAfter(w, "/shuffle", "none", {})
    /\ UNCHANGED <<status, current_task, map_output, reduce_output, workers,
                   mapper, reducer, futures, clientVars>>

\* the next element of the payload is no pair: unpacking it raises ValueError
\* and the handler answers 500; it sets no status (worker.py:120, 128-130)
receive_shuffle_raise(w, t) ==
    /\ t \in 1 .. Len(handler[w])
    /\ handler[w][t].route = "/shuffle"
    /\ handler[w][t].body # <<>>
    /\ Len(Head(handler[w][t].body)) # 2
    /\ Respond(w, t, "500")
    /\ UNCHANGED workerVars

\* the loop is over: the handler answers (worker.py:123-127)
receive_shuffle_data(w, t) ==
    /\ t \in 1 .. Len(handler[w])
    /\ handler[w][t].route = "/shuffle"
    /\ handler[w][t].body = <<>>
    /\ Respond(w, t, "200")
    /\ UNCHANGED workerVars

\* a /clear that leaves status and current_task as they are
clear_keeps_status(w, t) ==
    /\ Holds(w, t, "/clear", "sent")
    /\ map_output' = [map_output EXCEPT ![w] = <<>>]
    /\ reduce_input' = [reduce_input EXCEPT ![w] = <<>>]
    /\ reduce_output' = [reduce_output EXCEPT ![w] = <<>>]
    /\ Respond(w, t, "200")
    /\ UNCHANGED <<status, current_task, workers, mapper, reducer>>

\* a /clear that moves the map output aside instead of dropping it
clear_moves_output(w, t) ==
    /\ Holds(w, t, "/clear", "sent")
    /\ map_output' = [map_output EXCEPT ![w] = <<>>]
    /\ reduce_input' = [reduce_input EXCEPT ![w] = <<>>]
    /\ reduce_output' = [reduce_output EXCEPT ![w] = map_output[w]]
    /\ status' = [status EXCEPT ![w] = "idle"]
    /\ current_task' = [current_task EXCEPT ![w] = None]
    /\ Respond(w, t, "200")
    /\ UNCHANGED <<workers, mapper, reducer>>

\* a /clear that also forgets the peers
clear_forgets_registry(w, t) ==
    /\ Holds(w, t, "/clear", "sent")
    /\ map_output' = [map_output EXCEPT ![w] = <<>>]
    /\ reduce_input' = [reduce_input EXCEPT ![w] = <<>>]
    /\ reduce_output' = [reduce_output EXCEPT ![w] = <<>>]
    /\ status' = [status EXCEPT ![w] = "idle"]
    /\ current_task' = [current_task EXCEPT ![w] = None]
    /\ workers' = [workers EXCEPT ![w] = <<>>]
    /\ Respond(w, t, "200")
    /\ UNCHANGED <<mapper, reducer>>

\* POST /clear (worker.py:215-227)
clear(w, t) ==
    /\ Holds(w, t, "/clear", "sent")
    /\ map_output' = [map_output EXCEPT ![w] = <<>>]
    /\ reduce_input' = [reduce_input EXCEPT ![w] = <<>>]
    /\ reduce_output' = [reduce_output EXCEPT ![w] = <<>>]
    /\ status' = [status EXCEPT ![w] = "idle"]
    /\ current_task' = [current_task EXCEPT ![w] = None]
    /\ Respond(w, t, "200")
    /\ UNCHANGED <<workers, mapper, reducer>>

(***************************************************************************)
(* SpecWorker: one worker served by arbitrary clients, one request at a    *)
(* time: a client posts any request once the worker holds none.  The       *)
(* served worker is worker 0; its peers only receive its shuffle           *)
(* deliveries.  Requests that overlap are the subject of SpecRace.         *)
(***************************************************************************)
\* the payloads of /execute_map: a readable record, an unreadable one
MapBodies == {Indexed(<<0>>), Indexed(<<NoHour>>), Indexed(<<MaxKey, 0>>)}

\* the payloads of /shuffle: their values are not the 1 a mapper emits, and
\* the last element of one is a list of one element instead of a pair
Payloads == {<< <<0, 2>> >>, << <<0, 3>>, <<1, 2>> >>, << <<0, 2>>, <<0>> >>}

\* the requests clients send: the routes that read or write the worker's
\* fields (/health and /set_task only answer)
ClientRequests ==
    {Request("/register_workers", Registry), Request("/clear", <<>>),
     Request("/execute_shuffle", <<>>), Request("/execute_reduce", <<>>)}
        \cup {Request("/shuffle", p) : p \in Payloads}
        \cup {Request("/execute_map", b) : b \in MapBodies}

\* the clients stop adding to the reduce-inputs at MaxValues values
Filling(req) == req.route \in {"/shuffle", "/execute_shuffle"}

MayPost(w, req) ==
    Filling(req) =>
        /\ \A v \in Workers : CountValues(reduce_input[v]) < MaxValues
        /\ \A t \in 1 .. Len(handler[w]) : ~Filling(handler[w][t])

\* what the start scripts give a worker: nothing (main.py:156-169), the
\* task's classes (run_example.py:81-82), or a mapper that raises
Deployments == {<<None, None>>,
                <<"HourlyTrafficMapper", "HourlyTrafficReducer">>,
                <<"RaisingMapper", "HourlyTrafficReducer">>}

WorkerSpecInit ==
    /\ status = [w \in Workers |-> "idle"]
    /\ current_task = [w \in Workers |-> None]
    /\ map_output = [w \in Workers |-> <<>>]
    /\ reduce_input = [w \in Workers |-> <<>>]
    /\ reduce_output = [w \in Workers |-> <<>>]
    /\ workers = [w \in Workers |-> <<>>]
    /\ \E d \in Deployments :
           /\ mapper = [w \in Workers |-> d[1]]
           /\ reducer = [w \in Workers |-> d[2]]
    /\ secret = [w \in Workers |-> 0]
    /\ incarnation = [w \in Workers |-> 0]
    /\ call1 = NoCall
    /\ call2 = NoCall
    /\ CoordIdle

\* a client's request reaches worker 0; its response goes to that client,
\* not to a future of the coordinator
client_post(req) ==
    /\ handler[0] = <<>>
    /\ MayPost(0, req)
    /\ handler' = [handler EXCEPT ![0] = Append(@, [req EXCEPT !.waited = FALSE])]
    /\ UNCHANGED <<workerVars, futures, steps, clientVars>>

WorkerNext ==
    \/ \E req \in ClientRequests : client_post(req)
    \/ \E w \in Workers, t \in Threads : register_workers(w, t)
    \/ \E w \in Workers, t \in Threads : receive_shuffle_step(w, t)
    \/ \E w \in Workers, t \in Threads : receive_shuffle_raise(w, t)
    \/ \E w \in Workers, t \in Threads : receive_shuffle_data(w, t)
    \/ \E w \in Workers, t \in Threads : clear(w, t)
    \/ \E w \in Workers, t \in Threads : execute_map_start(w, t)
    \/ \E w \in Workers, t \in Threads : execute_map_finish(w, t)
    \/ \E w \in Workers, t \in Threads : execute_shuffle_start(w, t)
    \/ \E w \in Workers, t \in Threads : execute_shuffle_finish(w, t)
    \/ \E w \in Workers, t \in Threads : execute_reduce_start(w, t)
    \/ \E w \in Workers, t \in Threads : execute_reduce_finish(w, t)

SpecWorker == WorkerSpecInit /\ [][WorkerNext]_vars

(***************************************************************************)
(* Properties of the worker's handlers.                                    *)
(***************************************************************************)
\* what a client can observe of a worker
Observable(w) ==
    [status |-> status[w], current_task |-> current_task[w],
     map_output |-> map_output[w], reduce_input |-> reduce_input[w],
     reduce_output |-> reduce_output[w]]

Cleared ==
    [status |-> "idle", current_task |-> None, map_output |-> <<>>,
     reduce_input |-> <<>>, reduce_output |-> <<>>]

NoStep == [route |-> "none", from |-> "none", code |-> "none"]

LastStep(w) == IF steps[w] = <<>> THEN NoStep ELSE steps[w][Len(steps[w])]

\* this step is the return of the handler of thread t of worker w
Returns(w, t) ==
    /\ t \in 1 .. Len(handler[w])
    /\ Len(steps'[w]) > 0
    /\ steps'[w][Len(steps'[w])] =
           [route |-> handler[w][t].route, from |-> status[w],
            code |-> steps'[w][Len(steps'[w])].code]
    /\ handler'[w] = RemoveAt(handler[w], t)

Replied(w) == steps'[w][Len(steps'[w])].code

\* C12: when the mapper raises in execute_map, or the reducer raises in
\* execute_reduce, the handler answers 500 and leaves the status error.
C12_UserCodeFailure ==
    [][\A w \in Workers, t \in Threads :
         /\ (/\ Holds(w, t, "/execute_map", "running")
             /\ Returns(w, t)
             /\ _execute_map_phase(mapper[w], handler[w][t].body).raised)
                => (Replied(w) = "500" /\ status'[w] = "error")
         /\ (/\ Holds(w, t, "/execute_reduce", "running")
             /\ Returns(w, t)
             /\ _execute_reduce_phase(reducer[w], reduce_input[w]).raised)
                => (Replied(w) = "500" /\ status'[w] = "error")]_vars

\* C12's case: the reducer raised on a reduce-input that holds values
C12_Witness ==
    /\ LastStep(0) = [route |-> "/execute_reduce", from |-> "reducing", code |-> "500"]
    /\ reduce_input[0] # <<>>
    /\ status[0] = "error"

C14_ResetIdempotent ==
    [][\A w \in Workers, t \in Threads :
         (/\ LastStep(w).route = "/clear"
          /\ Holds(w, t, "/clear", "sent")
          /\ Returns(w, t))
            => Observable(w)' = Observable(w)]_vars

\* C14's case: two /clear in a row, the first one after an error
C14_Witness ==
    /\ Len(steps[0]) = 2
    /\ steps[0][1] = [route |-> "/clear", from |-> "error", code |-> "200"]
    /\ steps[0][2].route = "/clear"

WorkerStatuses == {"idle", "mapping", "shuffling", "reducing", "error"}

\* C20: a worker on which no handler has run yet is idle, and the status of
\* a worker is always one of idle, mapping, shuffling, reducing, error.
C20_StatusInvariant ==
    \A w \in Workers :
        /\ status[w] \in WorkerStatuses
        /\ steps[w] = <<>> => status[w] = "idle"

\* C20's case: a handler that raised, then a shuffle in progress
C20_Witness ==
    /\ status[0] = "shuffling"
    /\ LastStep(0).from = "error"

\* C23: while a worker's status is error, a step of a /shuffle handler
\* leaves the worker's reduce-input unchanged.
C23_NoDeliveryInError ==
    [][\A w \in Workers, t \in Threads :
         (/\ t \in 1 .. Len(handler[w])
          /\ handler[w][t].route = "/shuffle"
          /\ status[w] = "error")
            => reduce_input'[w] = reduce_input[w]]_vars

\* C24: a worker whose status is error leaves that status only by the step
\* of a /clear handler.
C24_ResetIsOnlyRecovery ==
    [][\A w \in Workers :
         (status[w] = "error" /\ status'[w] # "error")
            => LastStep(w)'.route = "/clear"]_vars

\* C25: right after a successful execute_reduce, reduce-output holds, in the
\* order of the keys of reduce-input, one pair per key: the key with the
\* reducer's result on the key's whole value list.
C25_ReduceCoversKeys ==
    \A w \in Workers :
        (LastStep(w).route = "/execute_reduce" /\ LastStep(w).code = "200") =>
            /\ Len(reduce_output[w]) = Len(reduce_input[w])
            /\ \A i \in 1 .. Len(reduce_input[w]) :
                   reduce_output[w][i] =
                       <<reduce_input[w][i].key, SumSeq(reduce_input[w][i].values)>>

\* C25's case: two keys, one of them with two values
C25_Witness ==
    /\ LastStep(0).route = "/execute_reduce"
    /\ LastStep(0).code = "200"
    /\ Len(reduce_input[0]) = 2
    /\ \E i \in 1 .. 2 : Len(reduce_input[0][i].values) = 2

\* C26: an execute_shuffle handled right after a successful execute_shuffle,
\* with no execute_map in between, adds nothing to any reduce-input.
C26_NoDuplicateDelivery ==
    [][\A w \in Workers, t \in Threads :
         (/\ Holds(w, t, "/execute_shuffle", "running")
          /\ Returns(w, t)
          /\ Len(steps[w]) = 2
          /\ steps[w][1].route = "/execute_shuffle"
          /\ steps[w][1].code = "200")
            => \A v \in Workers : reduce_input'[v] = reduce_input[v]]_vars

\* what the mappers emit for a body none of whose records makes them raise:
\* one pair <<hour, 1>> per record that has an hour, in the order of the body
Emitted(body) ==
    LET kept == SelectSeq(body, LAMBDA rec : rec[2] # NoHour)
    IN  [i \in 1 .. Len(kept) |-> <<kept[i][2], 1>>]

\* C33: when an execute_map handler returns success, the worker's map-output
\* is the pairs emitted for the records of the request's body, in the order
\* of the body, and nothing else.
C33_MapOutputContentAndOrder ==
    [][\A w \in Workers, t \in Threads :
         (/\ Holds(w, t, "/execute_map", "running")
          /\ Returns(w, t)
          /\ Replied(w) = "200")
            => map_output'[w] = Emitted(handler[w][t].body)]_vars

\* C33's case: a map of two records, after an earlier map whose output a
\* shuffle had delivered
C33_Witness ==
    /\ LastStep(0).route = "/execute_map"
    /\ LastStep(0).code = "200"
    /\ map_output[0] = << <<MaxKey, 1>>, <<0, 1>> >>
    /\ \E v \in Workers : reduce_input[v] # <<>>

TaskRoutes == {"/execute_map", "/execute_shuffle", "/execute_reduce"}

\* a thread of worker w serves this route
Serves(w, route) ==
    \E t \in 1 .. Len(handler[w]) : handler[w][t].route = route

\* C34: a step of an execute_map handler leaves the worker's reduce-input
\* and reduce-output, and the reduce-input of every peer, as they are.
C34_MapFrameCondition ==
    [][\A w \in Workers :
         (Serves(w, "/execute_map") /\ handler'[w] # handler[w]) =>
            /\ reduce_input' = reduce_input
            /\ reduce_output'[w] = reduce_output[w]]_vars

\* C34's case: a map returned on a worker whose reduce-input and
\* reduce-output were filled
C34_Witness ==
    /\ LastStep(0).route = "/execute_map"
    /\ LastStep(0).code = "200"
    /\ map_output[0] # <<>>
    /\ reduce_input[0] # <<>>
    /\ reduce_output[0] # <<>>

\* the status and the current task a task handler sets on entry
\* (worker.py:89-90, 136-137, 161-162)
BusyStatus(route) ==
    CASE route = "/execute_map" -> <<"mapping", "map">>
      [] route = "/execute_shuffle" -> <<"shuffling", "shuffle">>
      [] route = "/execute_reduce" -> <<"reducing", "reduce">>

\* C35: while a task handler runs on a worker that serves one request at a
\* time, the status is the one of its task; right after a task handler
\* answered 200 the status is idle and there is no current task.
C35_TaskStatusRoundTrip ==
    \A w \in Workers :
        /\ \A t \in Threads, route \in TaskRoutes :
               Holds(w, t, route, "running") =>
                   <<status[w], current_task[w]>> = BusyStatus(route)
        /\ (LastStep(w).route \in TaskRoutes /\ LastStep(w).code = "200") =>
               (status[w] = "idle" /\ current_task[w] = None)

\* C35's case: a reduce that found the worker in status error has answered 200
C35_Witness ==
    /\ steps[0] = <<[route |-> "/execute_reduce", from |-> "error", code |-> "none"],
                    [route |-> "/execute_reduce", from |-> "reducing", code |-> "200"]>>
    /\ status[0] = "idle"

\* C36: an execute_reduce handled right after a successful execute_reduce
\* answers 200 and leaves the reduce-output as the first one left it, and no
\* step of an execute_reduce handler changes a reduce-input.
C36_ReduceIsRepeatable ==
    [][\A w \in Workers, t \in Threads :
         /\ (/\ Holds(w, t, "/execute_reduce", "running")
             /\ Returns(w, t)
             /\ Len(steps[w]) = 2
             /\ steps[w][1].route = "/execute_reduce"
             /\ steps[w][1].code = "200")
                => (Replied(w) = "200" /\ reduce_output'[w] = reduce_output[w])
         /\ (Serves(w, "/execute_reduce") /\ handler'[w] # handler[w])
                => reduce_input' = reduce_input]_vars

\* C36's case: a second reduce runs right after a reduce that emitted pairs
C36_Witness ==
    /\ Len(steps[0]) = 2
    /\ steps[0][1].route = "/execute_reduce"
    /\ steps[0][1].code = "200"
    /\ Holds(0, 1, "/execute_reduce", "running")
    /\ Len(reduce_output[0]) = 2

\* C39: an execute_shuffle on a worker with an empty registry delivers
\* nothing; with a non-empty map-output it answers 500 and leaves the status
\* error, with an empty one it answers 200.
C39_ShuffleWithoutPeers ==
    [][\A w \in Workers, t \in Threads :
         (/\ Holds(w, t, "/execute_shuffle", "running")
          /\ Returns(w, t)
          /\ workers[w] = <<>>)
            => /\ reduce_input' = reduce_input
               /\ IF map_output[w] # <<>>
                  THEN Replied(w) = "500" /\ status'[w] = "error"
                  ELSE Replied(w) = "200" /\ status'[w] = "idle"]_vars

\* C39's case: a shuffle of a non-empty map-output without a registry
C39_Witness ==
    /\ LastStep(0) = [route |-> "/execute_shuffle", from |-> "shuffling", code |-> "500"]
    /\ workers[0] = <<>>
    /\ map_output[0] # <<>>

\* C40: a step of a /clear handler leaves the worker's mapper, reducer and
\* registry, and the process with its partitioner, as they are.
C40_ResetFrameCondition ==
    [][\A w \in Workers :
         (Serves(w, "/clear") /\ handler'[w] # handler[w]) =>
            /\ mapper'[w] = mapper[w]
            /\ reducer'[w] = reducer[w]
            /\ workers'[w] = workers[w]
            /\ procVars' = procVars]_vars

\* C40's case: a /clear on a worker with mapper, reducer and registry that
\* held data
C40_Witness ==
    /\ LastStep(0).route = "/clear"
    /\ steps[0][1].route = "/execute_shuffle"
    /\ workers[0] = Registry
    /\ mapper[0] # None
    /\ reducer[0] # None

\* the elements of a /shuffle payload that do not unpack into key and value
Malformed(body) == {i \in 1 .. Len(body) : Len(body[i]) # 2}

\* C38: a /shuffle handler whose payload holds an element that is no pair,
\* and which therefore answers 500, appends nothing to the reduce-input: no
\* step it takes changes the reduce-input.
C38_AtomicDeliveryOnError ==
    [][\A w \in Workers, t \in Threads :
         (/\ t \in 1 .. Len(handler[w])
          /\ handler[w][t].route = "/shuffle"
          /\ Malformed(handler[w][t].body) # {})
            => reduce_input'[w] = reduce_input[w]]_vars

(***************************************************************************)
(* SpecRace: worker 0 served by clients whose requests overlap.  Flask     *)
(* runs with threaded=True (worker.py:363-366): every request gets a       *)
(* thread of its own, and no handler takes a lock, so the steps of up to   *)
(* MaxThreads handlers interleave freely.                                  *)
(***************************************************************************)
\* the task requests and a delivery of two pairs
RaceRequests ==
    {Request("/execute_map", Indexed(<<0>>)), Request("/execute_shuffle", <<>>),
     Request("/execute_reduce", <<>>), Request("/shuffle", << <<0, 3>>, <<1, 2>> >>)}

race_post(req) ==
    /\ Len(handler[0]) < MaxThreads
    /\ req.route = "/shuffle" => CountValues(reduce_input[0]) < MaxValues
    /\ handler' = [handler EXCEPT ![0] = Append(@, [req EXCEPT !.waited = FALSE])]
    /\ UNCHANGED <<workerVars, futures, steps, clientVars>>

RaceNext ==
    \/ \E req \in RaceRequests : race_post(req)
    \/ \E w \in Workers, t \in Threads : receive_shuffle_step(w, t)
    \/ \E w \in Workers, t \in Threads : receive_shuffle_data(w, t)
    \/ \E w \in Workers, t \in Threads : execute_map_start(w, t)
    \/ \E w \in Workers, t \in Threads : execute_map_finish(w, t)
    \/ \E w \in Workers, t \in Threads : execute_shuffle_start(w, t)
    \/ \E w \in Workers, t \in Threads : execute_shuffle_finish(w, t)
    \/ \E w \in Workers, t \in Threads : execute_reduce_start(w, t)
    \/ \E w \in Workers, t \in Threads : execute_reduce_finish(w, t)

SpecRace == WorkerSpecInit /\ [][RaceNext]_vars

\* the handlers of worker w that are between their first and last statement
Running(w, routes) ==
    {t \in 1 .. Len(handler[w]) :
        handler[w][t].route \in routes /\ handler[w][t].stage = "running"}

\* C21: on one worker at most one of the handlers execute_map,
\* execute_shuffle and execute_reduce is in progress at any time.
C21_OneTaskAtATime ==
    \A w \in Workers : Cardinality(Running(w, TaskRoutes)) <= 1

\* C22: on one worker at most one /shuffle handler is between the first and
\* the last append of its payload, so no append of another delivery falls
\* between them.
C22_DeliveryMutualExclusion ==
    \A w \in Workers :
        Cardinality({t \in Running(w, {"/shuffle"}) : handler[w][t].body # <<>>}) <= 1

\* C37: while an execute_reduce handler of a worker is between its first and
\* its last statement, and so while it iterates the reduce-input, no step
\* changes that reduce-input.
C37_ReduceInputStable ==
    [][\A w \in Workers :
         Running(w, {"/execute_reduce"}) # {} => reduce_input'[w] = reduce_input[w]]_vars

(***************************************************************************)
(* The Coordinator (coordinator.py): __init__ with its health check, then  *)
(* run_job.  Every phase submits one request per worker to a thread pool   *)
(* of num_workers threads and then takes the futures as they complete.     *)
(***************************************************************************)
JobPhases == {"health", "reset", "map", "reduce", "collect"}

\* the request a phase sends to worker w (coordinator.py:66, 121, 161-175,
\* 208-217, 249)
PhaseRequest(phase, w) ==
    CASE phase = "health" -> Request("/health", <<>>)
      [] phase = "reset" -> Request("/reset", <<>>)
      [] phase = "map" -> Request("/execute_map", data_splits[w + 1])
      [] phase = "reduce" -> Request("/execute_reduce", <<>>)
      [] phase = "collect" -> Request("/get_results", <<>>)

NextPhase(phase) ==
    CASE phase = "health" -> "constructed"
      [] phase = "reset" -> "map"
      [] phase = "map" -> "reduce"
      [] phase = "reduce" -> "collect"
      [] phase = "collect" -> "done"

\* a main thread that never calls raise_for_status
FutureOkUnchecked(phase, outcome) == outcome # "exc"

\* a health check that logs a failed probe and goes on
HealthUnchecked(phase, outcome) ==
    IF phase = "health" THEN TRUE
    ELSE IF phase = "reset" THEN outcome # "exc" ELSE outcome = "200"

\* whether taking a future with this outcome raises nothing: _reset_workers
\* only calls future.result() (coordinator.py:126); the other phases also call
\* raise_for_status (coordinator.py:67, 183, 225, 256)
FutureOk(phase, outcome) ==
    IF phase = "reset" THEN outcome # "exc" ELSE outcome = "200"

\* an executor shut down without waiting for its futures
ShutdownNoWait == TRUE

\* ThreadPoolExecutor.__exit__ is shutdown(wait=True): it returns when every
\* submitted future is done (coordinator.py:49, 119, 157, 204, 247)
ShutdownDone == \A w \in Workers : futures[w] # "pending"

\* the workers of self.worker_addresses (coordinator.py:38-40)
Addressed == 0 .. (num_workers - 1)

Submitted(phase) == \A w \in Addressed : <<phase, w>> \in dispatched

Taken(phase, w) == \E o \in {"200", "404", "500", "exc"} : <<phase, w, o>> \in received

Unreadable(v) == {j \in 1 .. Len(v) : v[j] = NoHour}

\* run_job never looks into a record: one trip hour, and at most one record
\* that cannot be read, take the mapper through both of its paths
JobInputs ==
    {Indexed(v) : v \in {u \in SeqsUpTo({0, NoHour}, MaxLen) :
                             Cardinality(Unreadable(u)) <= 1}}

\* a Coordinator constructed over the first n workers
JobInitWith(n) ==
    /\ status = [w \in Workers |-> "idle"]
    /\ current_task = [w \in Workers |-> None]
    /\ map_output = [w \in Workers |-> <<>>]
    /\ reduce_input = [w \in Workers |-> <<>>]
    /\ reduce_output = [w \in Workers |-> <<>>]
    /\ workers = [w \in Workers |-> <<>>]
    /\ \E d \in Deployments :
           /\ mapper = [w \in Workers |-> d[1]]
           /\ reducer = [w \in Workers |-> d[2]]
    /\ secret = [w \in Workers |-> 0]
    /\ incarnation = [w \in Workers |-> 0]
    /\ NetIdle
    /\ JobIdle
    /\ MergeIdle
    /\ call1 = NoCall
    /\ call2 = NoCall
    /\ input_data \in JobInputs
    /\ num_workers = n
    /\ data_splits = <<>>
    /\ pc = "health"

JobInit == JobInitWith(NumWorkers)

\* executor.submit for worker w, in the order of worker_addresses
coord_submit(w) ==
    /\ pc \in JobPhases
    /\ failure = "no"
    /\ w \in Addressed
    /\ <<pc, w>> \notin dispatched
    /\ \A v \in Addressed : v < w => <<pc, v>> \in dispatched
    /\ dispatched' = dispatched \cup {<<pc, w>>}
    /\ futures' = [futures EXCEPT ![w] = "pending"]
    /\ handler' = [handler EXCEPT ![w] = Append(@, PhaseRequest(pc, w))]
    /\ UNCHANGED <<workerVars, procVars, partVars, mergeVars, input_data, num_workers,
                   data_splits, pc, failure, received, job, steps>>

\* one round of `for future in as_completed(futures)`
coord_take(w) ==
    /\ pc \in JobPhases
    /\ failure = "no"
    /\ Submitted(pc)
    /\ futures[w] \notin {"none", "pending"}
    /\ ~Taken(pc, w)
    /\ received' = received \cup {<<pc, w, futures[w]>>}
    /\ failure' = IF FutureOk(pc, futures[w]) THEN "no" ELSE "raising"
    /\ UNCHANGED <<workerVars, procVars, netVars, partVars, mergeVars, input_data,
                   num_workers, data_splits, pc, dispatched, job>>

\* the exception leaves the with block, and with it __init__ or run_job
coord_raise ==
    /\ failure = "raising"
    /\ ShutdownDone
    /\ failure' = "raised"
    /\ UNCHANGED <<workerVars, procVars, netVars, partVars, mergeVars, input_data,
                   num_workers, data_splits, pc, dispatched, received, job>>

\* every future of the phase was taken without an exception: the phase ends
\* (coordinator.py:43, 92-95, 104, 108, 112-115)
coord_advance ==
    /\ pc \in JobPhases
    /\ failure = "no"
    /\ \A w \in Addressed : Taken(pc, w)
    /\ pc' = NextPhase(pc)
    /\ futures' = [w \in Workers |-> "none"]
    /\ data_splits' = IF pc = "reset" THEN _split_data(input_data, num_workers)
                      ELSE data_splits
    /\ UNCHANGED <<workerVars, procVars, handler, steps, partVars, mergeVars, input_data,
                   num_workers, jobVars>>

\* the caller of Coordinator(...) calls run_job (coordinator.py:70-92): the
\* first time after the constructor, and again after a run_job that went
\* through its map and reduce phases has ended and the workers are quiet.
\* dispatched and received are those of the current job, the constructor's
\* health check counting for the first.
run_job ==
    /\ \/ pc = "constructed"
       \/ pc = "done"
       \/ pc = "collect" /\ failure = "raised"
    /\ \A w \in Workers : handler[w] = <<>>
    /\ job' = IF job = "none" THEN "first" ELSE "later"
    /\ pc' = "reset"
    /\ failure' = "no"
    /\ dispatched' = IF job = "none" THEN dispatched ELSE {}
    /\ received' = IF job = "none" THEN received ELSE {}
    /\ futures' = [w \in Workers |-> "none"]
    /\ data_splits' = <<>>
    /\ UNCHANGED <<workerVars, procVars, handler, steps, partVars, mergeVars, input_data,
                   num_workers>>

JobNext ==
    \/ \E w \in Workers : coord_submit(w)
    \/ \E w \in Workers : coord_take(w)
    \/ coord_raise
    \/ coord_advance
    \/ run_job
    \/ \E w \in Workers, t \in Threads : health(w, t)
    \/ \E w \in Workers, t \in Threads : not_found(w, t)
    \/ \E w \in Workers, t \in Threads : execute_map_start(w, t)
    \/ \E w \in Workers, t \in Threads : execute_map_finish(w, t)
    \/ \E w \in Workers, t \in Threads : execute_reduce_start(w, t)
    \/ \E w \in Workers, t \in Threads : execute_reduce_finish(w, t)
    \/ \E w \in Workers, t \in Threads : request_timeout(w, t)
    \/ \E w \in Workers, t \in Threads : connection_error(w, t)

SpecJob == JobInit /\ [][JobNext]_vars

(***************************************************************************)
(* Properties of a job driven by run_job.                                  *)
(***************************************************************************)
Outcomes == {"200", "404", "500", "exc"}

LaterPhases(phase) ==
    CASE phase = "map" -> {"reduce", "collect"}
      [] phase = "reduce" -> {"collect"}

Reducing(w) == \E t \in Threads : Holds(w, t, "/execute_reduce", "running")

\* the workers whose input partition is empty, once the input is split
EmptyPartition(w) == data_splits # <<>> /\ data_splits[w + 1] = <<>>

\* a worker never answered a task request with an error
CompletesSuccessfully(w) ==
    /\ status[w] # "error"
    /\ \A p \in {"map", "reduce"} : <<p, w, "500">> \notin received

\* C3: when a worker executes reduce, every pair in any worker's map output
\* has its key in the reduce-input of the worker with index partition(k, N).
C3_PhaseBarrierVisibility ==
    \A w \in Workers : Reducing(w) =>
        \A v \in Workers : \A i \in 1 .. Len(map_output[v]) :
            LET key == map_output[v][i][1]
            IN  key \in DictKeys(reduce_input[get_partition(secret[v], key, num_workers)])

\* C8 as stated: with fewer records than workers the empty input partitions
\* are the trailing ones, and their workers complete map and reduce.
C8_TrailingWorkersEmpty ==
    (data_splits # <<>> /\ Len(input_data) < num_workers) =>
        /\ \A i, j \in 1 .. num_workers :
               (i < j /\ data_splits[i] = <<>>) => data_splits[j] = <<>>
        /\ \A w \in Workers : EmptyPartition(w) => CompletesSuccessfully(w)

\* C8 amended: with fewer records than workers every worker but the last has
\* an empty input partition, the last one has the whole input, and the workers
\* with an empty partition complete map and reduce without an error.
C8_LeadingWorkersEmpty ==
    (data_splits # <<>> /\ Len(input_data) < num_workers) =>
        /\ \A i \in 1 .. (num_workers - 1) : data_splits[i] = <<>>
        /\ data_splits[num_workers] = input_data
        /\ \A w \in Workers : EmptyPartition(w) => CompletesSuccessfully(w)

C8_Witness ==
    /\ 0 < Len(input_data)
    /\ Len(input_data) < num_workers
    /\ \E w \in Workers :
           /\ EmptyPartition(w)
           /\ <<"map", w, "200">> \in received
           /\ <<"reduce", w, "200">> \in received

\* C9: execute-reduce is dispatched to a worker only after the coordinator
\* has taken a 200 response to execute-map from every worker.
C9_MapBarrier ==
    (\E w \in Workers : <<"reduce", w>> \in dispatched) =>
        \A v \in Workers : <<"map", v, "200">> \in received

C9_Witness ==
    /\ <<"reduce", 0>> \in dispatched
    /\ \E t \in Threads : Holds(0, t, "/execute_reduce", "sent")

\* C10: a failed execute-map or execute-reduce response makes run_job raise
\* in that phase with no request of a later phase dispatched, and when the
\* exception leaves run_job every request of the failing phase has ended.
C10_AbortWithoutCancellation ==
    \A p \in {"map", "reduce"} :
        /\ (\E w \in Workers, o \in Outcomes \ {"200"} : <<p, w, o>> \in received) =>
               /\ failure # "no"
               /\ pc = p
               /\ \A q \in LaterPhases(p), v \in Workers : <<q, v>> \notin dispatched
        /\ (pc = p /\ failure = "raised") =>
               \A v \in Workers : futures[v] \in Outcomes

C10_Witness ==
    /\ pc = "map"
    /\ failure = "raised"
    /\ \E w, v \in Workers :
           /\ <<"map", w, "500">> \in received
           /\ ~Taken("map", v)
           /\ futures[v] = "200"
           /\ map_output[v] # <<>>

\* the workers the RuntimeError of _check_worker_health names: addr is the
\* address of the future whose result raised (coordinator.py:56-62)
RuntimeErrorNames ==
    {w \in Workers : \E o \in Outcomes :
        <<"health", w, o>> \in received /\ ~FutureOk("health", o)}

\* C15: once a worker has answered the reset request with a non-2xx status,
\* the job is aborted and no execute-map request is dispatched.
C15_ResetFailureIsFatal ==
    (\E w \in Workers, o \in {"404", "500"} : <<"reset", w, o>> \in received) =>
        /\ failure # "no"
        /\ \A v \in Workers : <<"map", v>> \notin dispatched

\* C16: when the map phase of a later run_job on the same workers starts,
\* every worker's map-output, reduce-input and reduce-output are empty.
C16_JobIsolation ==
    (job = "later" /\ pc = "map" /\ \A w \in Workers : <<"map", w>> \notin dispatched) =>
        \A w \in Workers :
            /\ map_output[w] = <<>>
            /\ reduce_input[w] = <<>>
            /\ reduce_output[w] = <<>>

\* C17: as long as no request failed in transport and no worker answered
\* 500 (mapper and reducer did not raise), every request of the coordinator
\* is one the worker handles: no response is 404 and the job has not failed.
C17_EveryRequestHandled ==
    (\A p \in JobPhases, w \in Workers :
        <<p, w, "exc">> \notin received /\ <<p, w, "500">> \notin received) =>
        /\ \A p \in JobPhases, w \in Workers : <<p, w, "404">> \notin received
        /\ failure = "no"

\* C18: once the main thread has taken a failed health probe of worker w, the
\* constructor raises, its RuntimeError names w, and no request of another
\* phase is ever dispatched.
C18_HealthProbeFailure ==
    \A w \in Workers :
        (\E o \in Outcomes \ {"200"} : <<"health", w, o>> \in received) =>
            /\ failure # "no"
            /\ pc = "health"
            /\ RuntimeErrorNames = {w}
            /\ \A p \in JobPhases \ {"health"}, v \in Workers : <<p, v>> \notin dispatched

\* C18's case: the probe of worker 1 failed while worker 0 answered
C18_Witness ==
    /\ failure = "raised"
    /\ pc = "health"
    /\ <<"health", 1, "exc">> \in received
    /\ futures[0] = "200"

\* C19: a reset or execute-map request of a job is dispatched only after the
\* coordinator has taken a 200 health response from every worker for that job.
C19_HealthBeforeEveryJob ==
    (\E w \in Workers, p \in {"reset", "map"} : <<p, w>> \in dispatched) =>
        \A v \in Workers : <<"health", v, "200">> \in received

(***************************************************************************)
(* SpecSingle: the Coordinator over one worker, N = 1.                     *)
(***************************************************************************)
SingleInit == JobInitWith(1)

SpecSingle == SingleInit /\ [][JobNext]_vars

\* a single-process execution: map the whole input, group the pairs by key,
\* reduce every key once
SingleProcess(m, r, input) ==
    LET mapped == _execute_map_phase(m, input)
        grouped == AppendAll(<<>>, mapped.map_output)
    IN  _execute_reduce_phase(r, grouped).reduce_output

\* C31: with one worker, once the worker has answered the job's reduce
\* request with 200, its reduce-output, the result the job is to return, is
\* that of a single-process execution on the whole input.
C31_SingleWorkerEquivalence ==
    (num_workers = 1 /\ <<"reduce", 0, "200">> \in received) =>
        reduce_output[0] = SingleProcess(mapper[0], reducer[0], input_data)

\* C30: in a run_job on an empty input, as long as no request failed in
\* transport, no phase raises (each is issued and the job goes on to return
\* its result) and no worker's status is error.
C30_EmptyInput ==
    (/\ job # "none"
     /\ Len(input_data) = 0
     /\ \A p \in JobPhases, w \in Workers : <<p, w, "exc">> \notin received) =>
        /\ failure = "no"
        /\ \A w \in Workers : status[w] # "error"

(***************************************************************************)
(* SpecMerge: the final merge of Coordinator._collect_results              *)
(* (coordinator.py:267-302) as a function of all_results, the              *)
(* concatenated result lists.  A value is its Python type with, for a      *)
(* number, its amount h in units of 10^-Digits.  The floats are quarters,  *)
(* which binary floating point holds exactly, so that sums are exact and   *)
(* round() sees true ties.                                                 *)
(***************************************************************************)
Scale == 10 ^ Digits

PyInt(n) == [type |-> "int", h |-> n * Scale]
PyFloat(h) == [type |-> "float", h |-> h]
PyStrValue == [type |-> "str", h |-> 0]
\* what a TypeError leaves in place of a value
TypeError == [type |-> "TypeError", h |-> 0]

\* 1, -101, 0.25, 100.0, 100.5 and a string
MergeValues == {PyInt(1), PyInt(-101), PyFloat(25), PyFloat(100 * Scale),
                PyFloat(100 * Scale + 50), PyStrValue}

Abs(n) == IF n < 0 THEN -n ELSE n

\* int(x) of a number of h units: the integer part, towards zero
Truncated(h) == IF h < 0 THEN -((-h) \div Scale) ELSE h \div Scale

\* isinstance(v, (int, float))   (coordinator.py:286)
IsNumber(v) == v.type \in {"int", "float"}

\* isinstance(v, int) or (isinstance(v, float) and v > 100)   (coordinator.py:289)
LooksLikeCount(v) ==
    v.type = "int" \/ (v.type = "float" /\ v.h > Threshold * Scale)

\* sum(values), in units of 10^-Digits
SumValues(values) == SumSeq([i \in 1 .. Len(values) |-> values[i].h])

\* round(n / d, Digits) for n in units of 10^-Digits: the nearest multiple of
\* the unit, a tie going to the even one
RoundHalfEven(n, d) ==
    LET q == n \div d
        r == n % d
    IN  IF 2 * r < d THEN q
        ELSE IF 2 * r > d THEN q + 1
        ELSE IF q % 2 = 0 THEN q ELSE q + 1

\* a merge that averages whatever numbers collide
merge_value_averages(values) ==
    IF Len(values) = 1 THEN values[1]
    ELSE IF IsNumber(values[1])
    THEN IF \E i \in 1 .. Len(values) : ~IsNumber(values[i]) THEN TypeError
         ELSE PyFloat(RoundHalfEven(SumValues(values), Len(values)))
    ELSE values[1]

\* a merge that sums whatever numbers collide
merge_value_sums(values) ==
    IF Len(values) = 1 THEN values[1]
    ELSE IF IsNumber(values[1])
    THEN IF \E i \in 1 .. Len(values) : ~IsNumber(values[i]) THEN TypeError
         ELSE PyInt(Truncated(SumValues(values)))
    ELSE values[1]

\* the value the merge gives a key (coordinator.py:281-299); sum() raises
\* TypeError on a str among numbers (coordinator.py:295)
merge_value(values) ==
    IF Len(values) = 1 THEN values[1]
    ELSE IF IsNumber(values[1])
    THEN IF \A i \in 1 .. Len(values) : LooksLikeCount(values[i])
         THEN PyInt(Truncated(SumValues(values)))
         ELSE IF \E i \in 1 .. Len(values) : ~IsNumber(values[i]) THEN TypeError
         ELSE PyFloat(RoundHalfEven(SumValues(values), Len(values)))
    ELSE values[1]

\* a merge that keeps every collected pair apart
MergeUngrouped(results) ==
    [ended |-> "returned", value |-> results]

\* group by key, then one pair per key (coordinator.py:267-302)
final_merge(results) ==
    LET merged == AppendAll(<<>>, results)
        final == [i \in 1 .. Len(merged) |->
                     <<merged[i].key, merge_value(merged[i].values)>>]
    IN  IF \E i \in 1 .. Len(final) : final[i][2] = TypeError
        THEN [ended |-> "raised", value |-> <<>>]
        ELSE [ended |-> "returned", value |-> final]

MergeInputs == SeqsUpTo(Keys \X MergeValues, MaxResults)

MergeInit ==
    /\ WorkerInit
    /\ secret = [w \in Workers |-> 0]
    /\ incarnation = [w \in Workers |-> 0]
    /\ call1 = NoCall
    /\ call2 = NoCall
    /\ NetIdle
    /\ failure = "no"
    /\ dispatched = {}
    /\ received = {}
    /\ job = "none"
    /\ input_data = <<>>
    /\ num_workers = NumWorkers
    /\ data_splits = <<>>
    /\ pc = "merge"
    /\ all_results \in MergeInputs
    /\ final_results = NotMerged

_collect_results ==
    /\ pc = "merge"
    /\ final_results = NotMerged
    /\ final_results' = final_merge(all_results)
    /\ UNCHANGED <<workerVars, procVars, netVars, partVars, input_data,
                   num_workers, data_splits, pc, all_results, jobVars>>

MergeNext == _collect_results

SpecMerge == MergeInit /\ [][MergeNext]_vars

\* the values collected for key k, in the order collected
ValuesOf(k) ==
    LET sel == SelectSeq(all_results, LAMBDA p : p[1] = k)
    IN  [i \in 1 .. Len(sel) |-> sel[i][2]]

Returned == final_results.ended = "returned"

\* the pairs of the returned list that carry key k
PairsOf(k) == {i \in 1 .. Len(final_results.value) : final_results.value[i][1] = k}

Collides(k) == Len(ValuesOf(k)) >= 2

AllCounts(values) == \A i \in 1 .. Len(values) : LooksLikeCount(values[i])

AllNumbers(values) == \A i \in 1 .. Len(values) : IsNumber(values[i])

\* C27 as stated: a key collected with two or more values, each an int or a
\* float above 100, has the sum of those values in the returned list.
C27_SumRule ==
    Returned =>
        \A k \in Keys :
            (Collides(k) /\ AllCounts(ValuesOf(k))) =>
                \E i \in PairsOf(k) :
                    final_results.value[i][2].h = SumValues(ValuesOf(k))

\* C27 amended: such a key has in the returned list the sum of its values
\* truncated towards zero: an int r of the sum's sign with |sum| - 1 < |r|
\* and |r| <= |sum|.
C27_TruncatedSumRule ==
    Returned =>
        \A k \in Keys :
            (Collides(k) /\ AllCounts(ValuesOf(k))) =>
                \E i \in PairsOf(k) :
                    LET r == final_results.value[i][2]
                        sum == SumValues(ValuesOf(k))
                    IN  /\ r.type = "int"
                        /\ r.h % Scale = 0
                        /\ r.h * sum >= 0
                        /\ Abs(r.h) <= Abs(sum)
                        /\ Abs(sum) - Abs(r.h) < Scale

\* C27's case: counts whose sum is negative and no integer were merged
C27_Witness ==
    /\ Returned
    /\ \E k \in Keys :
           /\ Collides(k)
           /\ AllCounts(ValuesOf(k))
           /\ SumValues(ValuesOf(k)) < 0
           /\ SumValues(ValuesOf(k)) % Scale # 0

\* C28 as stated: a key collected with two or more numbers, not all of them
\* ints or floats above 100, has their arithmetic mean in the returned list.
C28_AverageRule ==
    Returned =>
        \A k \in Keys :
            (Collides(k) /\ AllNumbers(ValuesOf(k)) /\ ~AllCounts(ValuesOf(k))) =>
                \E i \in PairsOf(k) :
                    /\ IsNumber(final_results.value[i][2])
                    /\ final_results.value[i][2].h * Len(ValuesOf(k))
                           = SumValues(ValuesOf(k))

\* C28 amended: a key collected with two or more numbers, not all of them
\* ints or floats above 100, has in the returned list their mean rounded to
\* Digits decimals: a float no further than half a unit from the mean.
C28_RoundedAverageRule ==
    Returned =>
        \A k \in Keys :
            (Collides(k) /\ AllNumbers(ValuesOf(k)) /\ ~AllCounts(ValuesOf(k))) =>
                \E i \in PairsOf(k) :
                    LET r == final_results.value[i][2]
                        n == Len(ValuesOf(k))
                    IN  /\ r.type = "float"
                        /\ 2 * Abs(r.h * n - SumValues(ValuesOf(k))) <= n

\* C28's case: numbers whose mean is no multiple of the unit were merged
C28_Witness ==
    /\ Returned
    /\ \E k \in Keys :
           /\ Collides(k)
           /\ AllNumbers(ValuesOf(k))
           /\ ~AllCounts(ValuesOf(k))
           /\ SumValues(ValuesOf(k)) % Len(ValuesOf(k)) # 0

\* C29: the returned list has exactly one pair for each key collected and
\* none for another key; a key collected once keeps its value.
C29_ReconciliationShape ==
    Returned =>
        /\ \A k \in Keys :
               Cardinality(PairsOf(k)) = IF ValuesOf(k) = <<>> THEN 0 ELSE 1
        /\ \A i \in 1 .. Len(final_results.value) :
               final_results.value[i][1] \in Keys
        /\ \A k \in Keys :
               Len(ValuesOf(k)) = 1 =>
                   \A i \in PairsOf(k) : final_results.value[i][2] = ValuesOf(k)[1]

\* C29's case: one key collected twice, another once
C29_Witness ==
    /\ Returned
    /\ \E k, l \in Keys : Len(ValuesOf(k)) = 2 /\ Len(ValuesOf(l)) = 1

\* all_results when the responses of the workers complete in another order:
\* the results behind position i come first
Rotated(results, i) ==
    SubSeq(results, i + 1, Len(results)) \o SubSeq(results, 1, i)

\* C32: the list _collect_results returns does not depend on the order in
\* which the workers' result lists were collected: wherever all_results
\* divides into the lists of two workers, collecting them in the other order
\* returns an equal list.
C32_ResultDeterminism ==
    Returned =>
        \A i \in 0 .. Len(all_results) :
            final_merge(Rotated(all_results, i)) = final_results

====
